---- MODULE Spec2Model ----
(***************************************************************************)
(* A model of four parts of the MRVM tool and device crates:               *)
(*   - the lowering of extended instructions (asm/extinstr.rs) and the     *)
(*     execution of the lowered sequence by the CPU,                       *)
(*   - Program: decode, encode, prepend_all (asm/prog.rs),                 *)
(*   - the VolatileMem device (memory/volatile.rs),                        *)
(*   - bytes_to_words (lasm/mod.rs).                                       *)
(* Each part has its own specification over the shared variables; the      *)
(* variables of the other parts stay at their idle values.                 *)
(***************************************************************************)
EXTENDS Integers, Sequences, FiniteSets

VARIABLES
    ext,      \* the extended instruction handed to to_instr
    code,     \* the native instructions to_instr returned (<<>> before the call)
    regs,     \* the CPU's registers, each a 32-bit word
    ip,       \* index in code of the next instruction the CPU executes (0: not lowered)
    src,      \* the machine code handed to Program::decode
    forbid_raw, \* the strictness flag handed to Program::decode
    dec,      \* what Program::decode returned
    program,  \* the words of the Program (its field 0)
    arg,      \* the words handed to the last prepend or prepend_all
    enc,      \* what Program::encode returned
    pstage,   \* the last call made on the program
    mem,      \* the VolatileMem: its fields storage and size
    ctor,     \* the constructor call that made it, and what it returned
    mop,      \* the last bus operation on the device
    rd,       \* what the last read returned
    wstream,  \* the word stream handed to words_to_bytes
    binary,   \* the bytes handed to bytes_to_words
    words,    \* what bytes_to_words returned
    bstage,   \* the last conversion made
    part      \* which part of the repository the behaviour exercises

extVars == <<ext, code, regs, ip>>
progVars == <<src, forbid_raw, dec, program, arg, enc, pstage>>
memVars == <<mem, ctor, mop, rd>>
byteVars == <<wstream, binary, words, bstage>>
vars == <<extVars, progVars, memVars, byteVars, part>>

(***************************************************************************)
(* 32-bit words.  TLC's integers are 32-bit signed, so a u32 is kept as    *)
(* two 16-bit limbs and every operation wraps modulo 2^32 as the Rust      *)
(* operation on u32 does.                                                  *)
(***************************************************************************)
Pow2(n) == CASE n = 0 -> 1 [] n = 1 -> 2 [] n = 2 -> 4 [] n = 3 -> 8
             [] n = 4 -> 16 [] n = 5 -> 32 [] n = 6 -> 64 [] n = 7 -> 128
             [] n = 8 -> 256 [] n = 9 -> 512 [] n = 10 -> 1024 [] n = 11 -> 2048
             [] n = 12 -> 4096 [] n = 13 -> 8192 [] n = 14 -> 16384
             [] n = 15 -> 32768 [] n = 16 -> 65536

W(h, l) == [hi |-> h, lo |-> l]

U32Zero == W(0, 0)

\* u32::from(x) for a u8 or u16 x
U32From(x) == W(0, x)

\* w << n on u32, 0 <= n < 32: the bits shifted out are lost
U32Shl(w, n) ==
    IF n < 16
    THEN W((((w.hi * Pow2(n)) % 65536) + ((w.lo * Pow2(n)) \div 65536)) % 65536,
           (w.lo * Pow2(n)) % 65536)
    ELSE W((w.lo * Pow2(n - 16)) % 65536, 0)

\* w >> n on u32, 0 <= n < 32
U32Shr(w, n) ==
    IF n < 16
    THEN W(w.hi \div Pow2(n),
           (w.lo \div Pow2(n)) + (w.hi % Pow2(n)) * Pow2(16 - n))
    ELSE W(0, w.hi \div Pow2(n - 16))

\* w as u16: the low 16 bits
AsU16(w) == w.lo

\* wrapping addition on u32
U32WrappingAdd(a, b) ==
    LET l == a.lo + b.lo
    IN  W((a.hi + b.hi + (l \div 65536)) % 65536, l % 65536)

(***************************************************************************)
(* Native instructions and their operands (asm::Instr, asm::RegOrLit1/2).  *)
(***************************************************************************)
RegOp(r) == [kind |-> "reg", reg |-> r, lit |-> 0]
LitOp(v) == [kind |-> "lit", reg |-> "none", lit |-> v]

CPY(r, x)    == [op |-> "CPY", a |-> RegOp(r), b |-> x, c |-> LitOp(0)]
SHL(r, x)    == [op |-> "SHL", a |-> RegOp(r), b |-> x, c |-> LitOp(0)]
ADD(r, x)    == [op |-> "ADD", a |-> RegOp(r), b |-> x, c |-> LitOp(0)]
LEA(x, y, z) == [op |-> "LEA", a |-> x, b |-> y, c |-> z]
WEA(x, y, z) == [op |-> "WEA", a |-> x, b |-> y, c |-> z]

(***************************************************************************)
(* Extended instructions.  Fields a value does not carry hold a default.   *)
(***************************************************************************)
SetReg(r, v)       == [kind |-> "SetReg", reg |-> r, addr |-> U32Zero, value |-> v]
ReadAddr(a)        == [kind |-> "ReadAddr", reg |-> "none", addr |-> a, value |-> U32Zero]
ReadAddrTo(r, a)   == [kind |-> "ReadAddrTo", reg |-> r, addr |-> a, value |-> U32Zero]
WriteAddr(a, r)    == [kind |-> "WriteAddr", reg |-> r, addr |-> a, value |-> U32Zero]
WriteAddrLit(a, v) == [kind |-> "WriteAddrLit", reg |-> "none", addr |-> a, value |-> v]

\* the registers of the model: a general one and the two the lowerings name
Regs == {"a0", "avr", "rr0"}

ExtIdle ==
    /\ ext = SetReg("a0", U32Zero)
    /\ code = << >>
    /\ regs = [r \in Regs |-> U32Zero]
    /\ ip = 0

\* the SetReg arm with the low half taken from the high half again
SetRegArmHiTwice(reg, value) ==
    << CPY(reg, LitOp(AsU16(U32Shr(value, 16)))),
       SHL(reg, LitOp(16)),
       ADD(reg, LitOp(AsU16(U32Shr(value, 16)))) >>

\* ExtInstr::to_instr, the arm of SetReg(reg, value)
SetRegArm(reg, value) ==
    << CPY(reg, LitOp(AsU16(U32Shr(value, 16)))),
       SHL(reg, LitOp(16)),
       ADD(reg, LitOp(AsU16(value))) >>

\* ExtInstr::to_instr, the arm of ReadAddr(addr)
ReadAddrArm(addr) ==
    << CPY("avr", LitOp(AsU16(U32Shr(addr, 16)))),
       SHL("avr", LitOp(16)),
       ADD("avr", LitOp(AsU16(addr))),
       LEA(RegOp("avr"), LitOp(0), LitOp(0)) >>

\* ExtInstr::to_instr, the arm of ReadAddrTo(reg, addr)
ReadAddrToArm(reg, addr) ==
    << CPY("avr", LitOp(AsU16(U32Shr(addr, 16)))),
       SHL("avr", LitOp(16)),
       ADD("avr", LitOp(AsU16(addr))),
       LEA(RegOp("avr"), LitOp(0), LitOp(0)),
       CPY(reg, RegOp("avr")) >>

\* the WriteAddr arm storing through avr instead of rr0
WriteAddrArmThroughAvr(addr, reg_value) ==
    << CPY("rr0", LitOp(AsU16(U32Shr(addr, 16)))),
       SHL("rr0", LitOp(16)),
       ADD("rr0", LitOp(AsU16(addr))),
       CPY("avr", RegOp(reg_value)),
       WEA(RegOp("avr"), LitOp(0), LitOp(0)) >>

\* ExtInstr::to_instr, the arm of WriteAddr(addr, reg_value)
WriteAddrArm(addr, reg_value) ==
    << CPY("rr0", LitOp(AsU16(U32Shr(addr, 16)))),
       SHL("rr0", LitOp(16)),
       ADD("rr0", LitOp(AsU16(addr))),
       CPY("avr", RegOp(reg_value)),
       WEA(RegOp("rr0"), LitOp(0), LitOp(0)) >>

\* ExtInstr::to_instr, the arm of WriteAddrLit(addr, value)
WriteAddrLitArm(addr, value) ==
    << CPY("rr0", LitOp(AsU16(U32Shr(addr, 16)))),
       SHL("rr0", LitOp(16)),
       ADD("rr0", LitOp(AsU16(addr))),
       CPY("avr", LitOp(AsU16(U32Shr(value, 16)))),
       SHL("avr", LitOp(16)),
       ADD("avr", LitOp(AsU16(value))),
       WEA(RegOp("rr0"), LitOp(0), LitOp(0)) >>

\* ExtInstr::to_instr
to_instr(e) ==
    CASE e.kind = "SetReg" -> SetRegArm(e.reg, e.value)
      [] e.kind = "ReadAddr" -> ReadAddrArm(e.addr)
      [] e.kind = "ReadAddrTo" -> ReadAddrToArm(e.reg, e.addr)
      [] e.kind = "WriteAddr" -> WriteAddrArm(e.addr, e.reg)
      [] e.kind = "WriteAddrLit" -> WriteAddrLitArm(e.addr, e.value)

(***************************************************************************)
(* bytes_to_words (lasm/mod.rs) and the conversion it inverts.             *)
(***************************************************************************)
\* the shift of a little-endian packing
ShiftOfLittleEndian(i) == (i % 4) * 8

\* the shift of the byte at index i (0-based): (3 - (i % 4)) * 8
ShiftOf(i) == (3 - (i % 4)) * 8

\* the loop of bytes_to_words from index i (0-based), with the word being
\* built and the words pushed so far; it returns both at the end
RECURSIVE BytesLoop(_, _, _, _)
BytesLoop(bs, i, word, out) ==
    IF i >= Len(bs)
    THEN [word |-> word, words |-> out]
    ELSE LET w == U32WrappingAdd(word, U32Shl(U32From(bs[i + 1]), ShiftOf(i)))
         IN  IF i % 4 = 3
             THEN BytesLoop(bs, i + 1, U32Zero, Append(out, w))
             ELSE BytesLoop(bs, i + 1, w, out)

\* bytes_to_words
bytes_to_words(bs) ==
    LET rem == Len(bs) % 4
        r == BytesLoop(bs, 0, U32Zero, << >>)
    IN  IF rem # 0
        THEN Append(r.words, U32Shl(r.word, (4 - rem) * 8))
        ELSE r.words

\* the big-endian bytes of one word
WordBytes(w) == << w.hi \div 256, w.hi % 256, w.lo \div 256, w.lo % 256 >>

\* words_to_bytes
RECURSIVE words_to_bytes(_)
words_to_bytes(ws) ==
    IF ws = << >> THEN << >> ELSE WordBytes(Head(ws)) \o words_to_bytes(Tail(ws))

BytesIdle ==
    /\ wstream = << >>
    /\ binary = << >>
    /\ words = << >>
    /\ bstage = "start"

\* the sequences over S of length at most n
SeqsUpTo(S, n) == UNION { [1..k -> S] : k \in 0..n }

(***************************************************************************)
(* VolatileMem (memory/volatile.rs).  The words it stores are opaque here. *)
(* The conversions between u32 and usize cannot fail for the sizes of the  *)
(* model.                                                                  *)
(***************************************************************************)
Zeros(n) == [k \in 1..n |-> 0]

Mem(storage, size) == [storage |-> storage, size |-> size]

CtorOk(m)    == [ok |-> TRUE, err |-> "none", mem |-> m]
CtorErr(msg) == [ok |-> FALSE, err |-> msg, mem |-> Mem(<< >>, 0)]

\* VolatileMem::new
VolatileMem_new(size) ==
    IF size = 0
    THEN CtorErr("Volatile memory's size cannot be 0")
    ELSE IF size % 4 # 0
         THEN CtorErr("Volatile memory's size must be a multiple of 4 bytes")
         ELSE CtorOk(Mem(Zeros(size), size \div 4))

\* VolatileMem::from
VolatileMem_from(storage) ==
    LET size == Len(storage)
    IN  CtorOk(Mem(storage, size \div 4))

\* Vec::resize(new_len, 0)
Resize(storage, new_len) ==
    IF new_len <= Len(storage)
    THEN SubSeq(storage, 1, new_len)
    ELSE storage \o Zeros(new_len - Len(storage))

\* VolatileMem::from_with_size
VolatileMem_from_with_size(storage, size) ==
    IF Len(storage) > size
    THEN CtorErr("Volatile memory's size cannot be lower than its initial storage's size")
    ELSE IF size = 0
         THEN CtorErr("Volatile memory's size cannot be 0")
         ELSE IF size % 4 # 0
              THEN CtorErr("Volatile memory's size must be a multiple of 4 bytes")
              ELSE CtorOk(Mem(Resize(storage, size \div 4), size \div 4))

\* VolatileMem::size
VolatileMem_size(m) == m.size

\* the byte size VolatileMem::metadata hands to DeviceMetadata::new
MetadataSize(m) == m.size * 4

\* does indexing storage at addr / 4 panic
OutOfBounds(m, addr) == addr \div 4 >= Len(m.storage)

\* VolatileMem::read, for an address that does not panic
VolatileMem_read(m, addr) == m.storage[addr \div 4 + 1]

\* VolatileMem::write, for an address that does not panic
VolatileMem_write(m, addr, word) ==
    [m EXCEPT !.storage[addr \div 4 + 1] = word]

\* reset allocating with Vec::with_capacity, which leaves the vector empty
ResetWithCapacity(m) == [m EXCEPT !.storage = << >>]

\* VolatileMem::reset
VolatileMem_reset(m) == [m EXCEPT !.storage = Zeros(Len(m.storage))]

(***************************************************************************)
(* The inputs of the memory part.                                          *)
(***************************************************************************)
MaxSize == 8
MaxStorage == 3

MemWords == {0, 9}

NoCtor == [fn |-> "none", size |-> 0, storage |-> << >>, ok |-> FALSE, err |-> "none"]

\* Program::decode not called yet
NoResult == [tag |-> "none", prog |-> << >>, idx |-> 0, err |-> "none"]

ProgIdle ==
    /\ src = << >>
    /\ forbid_raw = FALSE
    /\ dec = NoResult
    /\ program = << >>
    /\ arg = << >>
    /\ enc = << >>
    /\ pstage = "start"

MemIdle ==
    /\ mem = Mem(<< >>, 0)
    /\ ctor = NoCtor
    /\ mop = "none"
    /\ rd = 0

\* the state after a constructor returned res
Constructed(fn, size, storage, res) ==
    /\ ctor' = [fn |-> fn, size |-> size, storage |-> storage,
                ok |-> res.ok, err |-> res.err]
    /\ mem' = res.mem
    /\ UNCHANGED <<mop, rd, part, extVars, progVars, byteVars>>

New ==
    /\ part = "mem"
    /\ ctor.fn = "none"
    /\ \E size \in 0..MaxSize :
         Constructed("new", size, << >>, VolatileMem_new(size))

From ==
    /\ part = "mem"
    /\ ctor.fn = "none"
    /\ \E storage \in SeqsUpTo(MemWords, MaxStorage) :
         Constructed("from", 0, storage, VolatileMem_from(storage))

FromWithSize ==
    /\ part = "mem"
    /\ ctor.fn = "none"
    /\ \E storage \in SeqsUpTo(MemWords, MaxStorage), size \in 0..MaxSize :
         Constructed("from_with_size", size, storage,
                     VolatileMem_from_with_size(storage, size))

\* the addresses the model reads and writes: every byte offset of the
\* storage and of the size the metadata reports, and the word after them
Addresses == 0..(4 * Len(mem.storage) + 3) \cup 0..(MetadataSize(mem) + 3)

Read ==
    /\ part = "mem"
    /\ ctor.ok
    /\ mop # "panic"
    /\ \E addr \in Addresses :
         IF OutOfBounds(mem, addr)
         THEN mop' = "panic" /\ rd' = rd
         ELSE mop' = "read" /\ rd' = VolatileMem_read(mem, addr)
    /\ UNCHANGED <<mem, ctor, part, extVars, progVars, byteVars>>

Write ==
    /\ part = "mem"
    /\ ctor.ok
    /\ mop # "panic"
    /\ \E addr \in Addresses, word \in MemWords :
         IF OutOfBounds(mem, addr)
         THEN mop' = "panic" /\ mem' = mem
         ELSE mop' = "write" /\ mem' = VolatileMem_write(mem, addr, word)
    /\ UNCHANGED <<ctor, rd, part, extVars, progVars, byteVars>>

Reset ==
    /\ part = "mem"
    /\ ctor.ok
    /\ mop # "panic"
    /\ mem' = VolatileMem_reset(mem)
    /\ mop' = "reset"
    /\ UNCHANGED <<ctor, rd, part, extVars, progVars, byteVars>>

InitMem ==
    /\ part = "mem"
    /\ ExtIdle
    /\ ProgIdle
    /\ MemIdle
    /\ BytesIdle

NextMem == New \/ From \/ FromWithSize \/ Read \/ Write \/ Reset

SpecMem == InitMem /\ [][NextMem]_vars

(***************************************************************************)
(* The instruction codec (asm::Instr::decode, Instr::encode) on a sample   *)
(* of the instruction set: a word is opcode, operand 1, operand 2,         *)
(* operand 3, one byte each; the opcode fixes the kind of every operand.   *)
(***************************************************************************)
OpTable ==
    [ op \in {0, 1, 2} |->
        CASE op = 0 -> [name |-> "HLT", kinds |-> <<"none", "none", "none">>]
          [] op = 1 -> [name |-> "CPY", kinds |-> <<"reg", "imm", "imm">>]
          [] op = 2 -> [name |-> "LEA", kinds |-> <<"reg", "reg", "imm">>] ]

\* the number of register selectors: 5 bits
RegSelectors == 32

NoInstr == [opcode |-> 0, name |-> "none", args |-> << >>]

\* the fault of one operand slot, "none" when it is well formed
SlotFault(kind, byte) ==
    CASE kind = "none" -> IF byte = 0 THEN "none" ELSE "InvalidOperandKind"
      [] kind = "reg" -> IF byte < RegSelectors THEN "none" ELSE "UnknownRegister"
      [] kind = "imm" -> "none"

\* Instr::decode: the instruction of 4 bytes, or the decoding error
Instr_decode(bytes) ==
    IF bytes[1] \notin DOMAIN OpTable
    THEN [ok |-> FALSE, err |-> "InvalidOpcode", instr |-> NoInstr]
    ELSE LET e == OpTable[bytes[1]]
             faults == [k \in 1..3 |-> SlotFault(e.kinds[k], bytes[k + 1])]
         IN  IF \E k \in 1..3 : faults[k] # "none"
             THEN LET first == CHOOSE k \in 1..3 :
                                 /\ faults[k] # "none"
                                 /\ \A j \in 1..(k - 1) : faults[j] = "none"
                  IN  [ok |-> FALSE, err |-> faults[first], instr |-> NoInstr]
             ELSE [ok |-> TRUE, err |-> "none",
                   instr |-> [opcode |-> bytes[1], name |-> e.name,
                              args |-> <<bytes[2], bytes[3], bytes[4]>>]]

\* Instr::encode: the 4 bytes of an instruction
Instr_encode(i) == <<i.opcode, i.args[1], i.args[2], i.args[3]>>

(***************************************************************************)
(* Program words (asm::ProgramWord) and Program (asm/prog.rs).             *)
(***************************************************************************)
PInstr(i)   == [raw |-> FALSE, instr |-> i, bytes |-> << >>]
PRaw(bytes) == [raw |-> TRUE, instr |-> NoInstr, bytes |-> bytes]

\* ProgramWord::encode
ProgramWord_encode(pword) ==
    IF pword.raw THEN pword.bytes ELSE Instr_encode(pword.instr)

DecodeOk(out)      == [tag |-> "Ok", prog |-> out, idx |-> 0, err |-> "none"]

\* the error of Program::decode carrying the byte offset of the word
DecodeErrByteOffset(i, err) ==
    [tag |-> "Err", prog |-> << >>, idx |-> i * 4, err |-> err]

\* Err((i, err)) of Program::decode
DecodeErr(i, err)  == [tag |-> "Err", prog |-> << >>, idx |-> i, err |-> err]

\* the loop of Program::decode, from word index i (0-based) with out decoded
RECURSIVE DecodeLoop(_, _, _, _)
DecodeLoop(prog, forbid, i, out) ==
    IF i >= Len(prog) \div 4
    THEN DecodeOk(out)
    ELSE LET bytes == << prog[i * 4 + 1], prog[i * 4 + 2],
                         prog[i * 4 + 3], prog[i * 4 + 4] >>
             d == Instr_decode(bytes)
         IN  IF d.ok
             THEN DecodeLoop(prog, forbid, i + 1, Append(out, PInstr(d.instr)))
             ELSE IF forbid
                  THEN DecodeErr(i, d.err)
                  ELSE DecodeLoop(prog, forbid, i + 1, Append(out, PRaw(bytes)))

\* Program::decode
Program_decode(prog, forbid) ==
    IF Len(prog) % 4 # 0
    THEN DecodeErr(0, "SourceNotMultipleOf4Bytes")
    ELSE DecodeLoop(prog, forbid, 0, << >>)

\* Program::encode leaving the raw words out
RECURSIVE EncodeSkipsRaw(_)
EncodeSkipsRaw(pwords) ==
    IF pwords = << >>
    THEN << >>
    ELSE (IF Head(pwords).raw THEN << >> ELSE Instr_encode(Head(pwords).instr))
           \o EncodeSkipsRaw(Tail(pwords))

\* Program::encode
RECURSIVE Program_encode(_)
Program_encode(pwords) ==
    IF pwords = << >>
    THEN << >>
    ELSE ProgramWord_encode(Head(pwords)) \o Program_encode(Tail(pwords))

\* slice.rotate_left(mid), for mid <= Len(slice)
RotateLeft(slice, mid) ==
    SubSeq(slice, mid + 1, Len(slice)) \o SubSeq(slice, 1, mid)

\* Program::prepend
prepend(pwords, instr) == <<instr>> \o pwords

\* Program::prepend_all: the outcomes of self.prepend_all(instr).  When instr
\* is longer than the program, the subtraction overflows: a build with
\* overflow checks panics there, one without wraps, extends the vector and
\* panics in rotate_left, whose mid exceeds the slice's length.
prepend_all(pwords, instr) ==
    IF Len(pwords) < Len(instr)
    THEN { [panic |-> TRUE, words |-> pwords],
           [panic |-> TRUE, words |-> pwords \o instr] }
    ELSE LET tail == Len(pwords) - Len(instr)
             v == pwords \o instr
         IN  { [panic |-> FALSE,
                words |-> SubSeq(v, 1, Len(instr))
                            \o RotateLeft(SubSeq(v, Len(instr) + 1, Len(v)), tail)] }

(***************************************************************************)
(* The inputs of the program part: machine code made of sample words and   *)
(* an incomplete last word, and program words to prepend.                  *)
(***************************************************************************)
MaxWords == 3
MaxPrepend == 2

CodeSamples ==
    { <<0, 0, 0, 0>>,         \* HLT
      <<1, 5, 222, 173>>,     \* CPY r5, 0xDEAD
      <<9, 0, 0, 0>>,         \* no such opcode
      <<1, 200, 0, 1>>,       \* CPY with a register selector out of range
      <<0, 0, 7, 0>> }        \* HLT with an operand

TailSample == <<72, 105, 33>>

RECURSIVE Flatten(_)
Flatten(groups) ==
    IF groups = << >> THEN << >> ELSE Head(groups) \o Flatten(Tail(groups))

Sources ==
    { Flatten(g) \o SubSeq(TailSample, 1, r) :
        g \in SeqsUpTo(CodeSamples, MaxWords), r \in 0..3 }

PrependSamples ==
    { PRaw(<<72, 105, 33, 10>>),
      PInstr([opcode |-> 0, name |-> "HLT", args |-> <<0, 0, 0>>]) }

InitProg ==
    /\ part = "prog"
    /\ ExtIdle
    /\ MemIdle
    /\ src \in Sources
    /\ forbid_raw \in BOOLEAN
    /\ dec = NoResult
    /\ program = << >>
    /\ arg = << >>
    /\ enc = << >>
    /\ pstage = "start"
    /\ BytesIdle

\* Program::decode(src, forbid_raw)
Decode ==
    /\ part = "prog"
    /\ pstage = "start"
    /\ dec' = Program_decode(src, forbid_raw)
    /\ program' = dec'.prog
    /\ pstage' = IF dec'.tag = "Ok" THEN "decoded" ELSE "failed"
    /\ UNCHANGED <<src, forbid_raw, arg, enc, part, extVars, memVars, byteVars>>

\* program.encode() on the decoded program
Encode ==
    /\ part = "prog"
    /\ pstage = "decoded"
    /\ enc' = Program_encode(program)
    /\ pstage' = "encoded"
    /\ UNCHANGED <<src, forbid_raw, dec, program, arg, part, extVars, memVars, byteVars>>

\* program.prepend(instr)
Prepend ==
    /\ part = "prog"
    /\ pstage \in {"decoded", "encoded"}
    /\ \E w \in PrependSamples :
         /\ arg' = <<w>>
         /\ program' = prepend(program, w)
    /\ pstage' = "prepend"
    /\ UNCHANGED <<src, forbid_raw, dec, enc, part, extVars, memVars, byteVars>>

\* program.prepend_all(instr)
PrependAll ==
    /\ part = "prog"
    /\ pstage \in {"decoded", "encoded"}
    /\ \E I \in SeqsUpTo(PrependSamples, MaxPrepend) :
         \E r \in prepend_all(program, I) :
           /\ arg' = I
           /\ program' = r.words
           /\ pstage' = IF r.panic THEN "prepend_all panicked" ELSE "prepend_all"
    /\ UNCHANGED <<src, forbid_raw, dec, enc, part, extVars, memVars, byteVars>>

NextProg == Decode \/ Encode \/ Prepend \/ PrependAll

SpecProg == InitProg /\ [][NextProg]_vars

(***************************************************************************)
(* The inputs of the lowering part.                                        *)
(***************************************************************************)
WordSamples ==
    { W(0, 0), W(0, 65535), W(1, 0), W(57005, 48879), W(65535, 65535) }

ExtInstrs ==
    { SetReg(r, v) : r \in Regs, v \in WordSamples }
      \cup { ReadAddr(a) : a \in WordSamples }
      \cup { ReadAddrTo(r, a) : r \in Regs, a \in WordSamples }
      \cup { WriteAddr(a, r) : a \in WordSamples, r \in Regs }
      \cup { WriteAddrLit(a, v) : a \in WordSamples, v \in WordSamples }

InitExt ==
    /\ part = "ext"
    /\ ProgIdle
    /\ MemIdle
    /\ ext \in ExtInstrs
    /\ code = << >>
    /\ \E w \in WordSamples : regs = [r \in Regs |-> w]
    /\ ip = 0
    /\ BytesIdle

\* a caller lowers the extended instruction
Lower ==
    /\ part = "ext"
    /\ ip = 0
    /\ code' = to_instr(ext)
    /\ ip' = 1
    /\ UNCHANGED <<ext, regs, part, progVars, memVars, byteVars>>

\* the value of a register-or-literal operand
OperandValue(x) == IF x.kind = "reg" THEN regs[x.reg] ELSE U32From(x.lit)

\* The results the CPU may leave in the destination of a CPY: the operand's
\* value; for a 16-bit immediate, which writes the low 16 bits, the high half
\* is either cleared or kept.
CpyResults(old, x) ==
    IF x.kind = "reg"
    THEN { regs[x.reg] }
    ELSE { W(0, x.lit), W(old.hi, x.lit) }

\* SHL: counts of 32 and more give 0
ShlResult(old, x) ==
    LET n == OperandValue(x)
    IN  IF n.hi = 0 /\ n.lo < 32 THEN U32Shl(old, n.lo) ELSE U32Zero

\* the CPU executes the next instruction of the lowered sequence; the memory
\* instructions LEA and WEA need the bus, which is outside this part
Exec ==
    /\ part = "ext"
    /\ ip >= 1
    /\ ip <= Len(code)
    /\ LET i == code[ip]
           d == i.a.reg
       IN  /\ i.op \in {"CPY", "SHL", "ADD"}
           /\ \E res \in ( CASE i.op = "CPY" -> CpyResults(regs[d], i.b)
                             [] i.op = "SHL" -> { ShlResult(regs[d], i.b) }
                             [] i.op = "ADD" ->
                                  { U32WrappingAdd(regs[d], OperandValue(i.b)) } ) :
                 regs' = [regs EXCEPT ![d] = res]
    /\ ip' = ip + 1
    /\ UNCHANGED <<ext, code, part, progVars, memVars, byteVars>>

NextExt == Lower \/ Exec

SpecExt == InitExt /\ [][NextExt]_vars

(***************************************************************************)
(* The inputs of the conversion part: bytes of any length up to MaxBytes,  *)
(* as an assembler may output them, and word streams.                      *)
(***************************************************************************)
MaxBytes == 8
MaxStream == 2

ByteSamples == {0, 1, 255}

InitBytes ==
    /\ part = "bytes"
    /\ ExtIdle
    /\ ProgIdle
    /\ MemIdle
    /\ BytesIdle

\* assemble(source) returned some bytes
Assemble ==
    /\ part = "bytes"
    /\ bstage = "start"
    /\ binary' \in SeqsUpTo(ByteSamples, MaxBytes)
    /\ bstage' = "assembled"
    /\ UNCHANGED <<wstream, words, part, extVars, progVars, memVars>>

\* words_to_bytes on a word stream
WordsToBytes ==
    /\ part = "bytes"
    /\ bstage = "start"
    /\ wstream' \in SeqsUpTo(WordSamples, MaxStream)
    /\ binary' = words_to_bytes(wstream')
    /\ bstage' = "packed"
    /\ UNCHANGED <<words, part, extVars, progVars, memVars>>

\* bytes_to_words(binary)
BytesToWords ==
    /\ part = "bytes"
    /\ bstage \in {"assembled", "packed"}
    /\ words' = bytes_to_words(binary)
    /\ bstage' = IF bstage = "packed" THEN "unpacked" ELSE "words"
    /\ UNCHANGED <<wstream, binary, part, extVars, progVars, memVars>>

NextBytes == Assemble \/ WordsToBytes \/ BytesToWords

SpecBytes == InitBytes /\ [][NextBytes]_vars

\* every part
Init == InitExt \/ InitProg \/ InitMem \/ InitBytes

Next == NextExt \/ NextProg \/ NextMem \/ NextBytes

Spec == Init /\ [][Next]_vars

(***************************************************************************)
(* C1: to_instr returns the canonical lowering of every extended           *)
(* instruction: SetReg(reg, v) is CPY reg, hi16(v); SHL reg, 16;           *)
(* ADD reg, lo16(v), and the four other forms are built from the lowering  *)
(* of SetReg followed by their memory instructions, so the lengths are     *)
(* 3, 4, 5, 5 and 7.                                                       *)
(***************************************************************************)
Hi16(v) == v.hi
Lo16(v) == v.lo

SetRegLowering(r, v) ==
    << CPY(r, LitOp(Hi16(v))), SHL(r, LitOp(16)), ADD(r, LitOp(Lo16(v))) >>

ReadAddrLowering(a) ==
    SetRegLowering("avr", a) \o << LEA(RegOp("avr"), LitOp(0), LitOp(0)) >>

CanonicalLowering(e) ==
    CASE e.kind = "SetReg" -> SetRegLowering(e.reg, e.value)
      [] e.kind = "ReadAddr" -> ReadAddrLowering(e.addr)
      [] e.kind = "ReadAddrTo" ->
           ReadAddrLowering(e.addr) \o << CPY(e.reg, RegOp("avr")) >>
      [] e.kind = "WriteAddr" ->
           SetRegLowering("rr0", e.addr)
             \o << CPY("avr", RegOp(e.reg)), WEA(RegOp("rr0"), LitOp(0), LitOp(0)) >>
      [] e.kind = "WriteAddrLit" ->
           SetRegLowering("rr0", e.addr) \o SetRegLowering("avr", e.value)
             \o << WEA(RegOp("rr0"), LitOp(0), LitOp(0)) >>

CanonicalLength(e) ==
    CASE e.kind = "SetReg" -> 3
      [] e.kind = "ReadAddr" -> 4
      [] e.kind = "ReadAddrTo" -> 5
      [] e.kind = "WriteAddr" -> 5
      [] e.kind = "WriteAddrLit" -> 7

C1_CanonicalLowering ==
    (part = "ext" /\ ip >= 1) =>
        /\ code = CanonicalLowering(ext)
        /\ Len(code) = CanonicalLength(ext)

C1_Witness ==
    /\ part = "ext"
    /\ ip >= 1
    /\ ext = WriteAddr(W(57005, 48879), "a0")
    /\ Len(code) = 5

(***************************************************************************)
(* C2: once the CPU has executed the three instructions of the lowering of *)
(* SetReg(reg, v), reg holds v, whatever reg held before.                  *)
(***************************************************************************)
C2_SetRegLoads ==
    (part = "ext" /\ ext.kind = "SetReg" /\ ip = 4) => regs[ext.reg] = ext.value

C2_Witness ==
    /\ part = "ext"
    /\ ext = SetReg("a0", W(57005, 48879))
    /\ ip = 4
    /\ regs["avr"] = W(65535, 65535)
    /\ regs["a0"] = W(57005, 48879)

(***************************************************************************)
(* C3: when Program::decode succeeds, Program::encode of the decoded       *)
(* program gives the source back byte for byte; with forbid_raw = false    *)
(* and a source of whole words, decode succeeds, the program has one word  *)
(* per 4-byte group in the order of the source, and a group the            *)
(* instruction decoder rejects is kept as a Raw word holding its 4 bytes.  *)
(***************************************************************************)
Group(k) == SubSeq(src, 4 * k - 3, 4 * k)

C3_DecodeEncodeRoundTrip ==
    part = "prog" =>
      /\ pstage = "encoded" => enc = src
      /\ (dec.tag # "none" /\ ~forbid_raw /\ Len(src) % 4 = 0) =>
           /\ dec.tag = "Ok"
           /\ Len(dec.prog) * 4 = Len(src)
           /\ \A k \in 1..Len(dec.prog) :
                IF Instr_decode(Group(k)).ok
                THEN dec.prog[k] = PInstr(Instr_decode(Group(k)).instr)
                ELSE dec.prog[k] = PRaw(Group(k))

C3_Witness ==
    /\ part = "prog"
    /\ pstage = "encoded"
    /\ ~forbid_raw
    /\ src = <<1, 5, 222, 173, 1, 200, 0, 1, 0, 0, 0, 0>>
    /\ enc = src
    /\ dec.prog[2] = PRaw(<<1, 200, 0, 1>>)

(***************************************************************************)
(* C4: Program::decode reports the first fault: a source whose length is   *)
(* not a multiple of 4 gives Err((0, SourceNotMultipleOf4Bytes)) whatever  *)
(* forbid_raw is; otherwise with forbid_raw = true it gives Err((i, err))  *)
(* exactly when a word is rejected, i the smallest index of a rejected     *)
(* word (counted in words) and err that word's error, and Ok otherwise.    *)
(***************************************************************************)
Rejected == { k \in 1..(Len(src) \div 4) : ~Instr_decode(Group(k)).ok }

C4_FirstFaultReported ==
    (part = "prog" /\ dec.tag # "none") =>
      IF Len(src) % 4 # 0
      THEN dec.tag = "Err" /\ dec.idx = 0 /\ dec.err = "SourceNotMultipleOf4Bytes"
      ELSE forbid_raw =>
             IF Rejected = {}
             THEN dec.tag = "Ok"
             ELSE LET first == CHOOSE k \in Rejected : \A j \in Rejected : k <= j
                  IN  /\ dec.tag = "Err"
                      /\ dec.idx = first - 1
                      /\ dec.err = Instr_decode(Group(first)).err

C4_Witness ==
    /\ part = "prog"
    /\ forbid_raw
    /\ src = <<0, 0, 0, 0, 1, 5, 222, 173, 1, 200, 0, 1>>
    /\ dec.tag = "Err"
    /\ dec.idx = 2
    /\ dec.err = "UnknownRegister"

(***************************************************************************)
(* C5: prepend_all(I) on a program P leaves I followed by the words of P   *)
(* in their order, and does not panic, for every P and I.                  *)
(***************************************************************************)
C5_PrependAllPrepends ==
    [][ (pstage' \in {"prepend_all", "prepend_all panicked"} /\ pstage' # pstage) =>
          (pstage' = "prepend_all" /\ program' = arg' \o program) ]_vars

(***************************************************************************)
(* C6: after reset, the device reads 0 at every valid offset, and the      *)
(* valid offsets are those of before the reset.  An offset is valid when   *)
(* it is a multiple of 4 below the size the metadata reports; the same is  *)
(* stated for the offsets the storage backs.                               *)
(***************************************************************************)
ValidOffsets(m) == { a \in 0..(MetadataSize(m) - 1) : a % 4 = 0 }

BackedOffsets(m) == { a \in 0..(4 * Len(m.storage) - 1) : a % 4 = 0 }

C6_ResetZeroes ==
    [][ (part = "mem" /\ mop' = "reset") =>
          /\ ValidOffsets(mem') = ValidOffsets(mem)
          /\ BackedOffsets(mem') = BackedOffsets(mem)
          /\ \A a \in ValidOffsets(mem') \cup BackedOffsets(mem') :
               ~OutOfBounds(mem', a) /\ VolatileMem_read(mem', a) = 0 ]_vars

C6_Witness ==
    /\ part = "mem"
    /\ mop = "reset"
    /\ ctor.fn = "from_with_size"
    /\ ctor.storage = <<9, 9>>
    /\ ctor.size = 8
    /\ mem.storage = <<0, 0>>

(***************************************************************************)
(* C7: a VolatileMem a constructor returns as Ok reports a byte size that  *)
(* is nonzero and a multiple of 4, and every constructor returns Err for a *)
(* requested capacity of 0 bytes or not a multiple of 4 bytes.             *)
(***************************************************************************)
\* the capacity in bytes a constructor call asks for
RequestedCapacity ==
    IF ctor.fn = "from" THEN 4 * Len(ctor.storage) ELSE ctor.size

C7_SizeValidated ==
    (part = "mem" /\ ctor.fn # "none") =>
      /\ ctor.ok => (MetadataSize(mem) # 0 /\ MetadataSize(mem) % 4 = 0)
      /\ (RequestedCapacity = 0 \/ RequestedCapacity % 4 # 0) => ~ctor.ok

(***************************************************************************)
(* C8: from_with_size(storage, size) returns an error when storage holds   *)
(* more than size bytes; when it returns Ok, read(4 * i) is storage[i] for *)
(* every word of the initial storage and 0 at every other valid offset.    *)
(***************************************************************************)
C8_FromWithSizeKeepsStorage ==
    (part = "mem" /\ ctor.fn = "from_with_size" /\ mop = "none") =>
      /\ 4 * Len(ctor.storage) > ctor.size => ~ctor.ok
      /\ ctor.ok =>
           /\ \A i \in 1..Len(ctor.storage) :
                /\ ~OutOfBounds(mem, 4 * (i - 1))
                /\ VolatileMem_read(mem, 4 * (i - 1)) = ctor.storage[i]
           /\ \A a \in ValidOffsets(mem) :
                a \div 4 >= Len(ctor.storage) =>
                  ~OutOfBounds(mem, a) /\ VolatileMem_read(mem, a) = 0

(***************************************************************************)
(* C10: the backing storage has as many words as size() returns, so the    *)
(* byte size of the metadata is the number of bytes the storage backs,     *)
(* and for new(n) it is n.                                                 *)
(***************************************************************************)
C10_StorageMatchesSize ==
    (part = "mem" /\ ctor.ok) =>
      /\ Len(mem.storage) = VolatileMem_size(mem)
      /\ MetadataSize(mem) = 4 * Len(mem.storage)
      /\ ctor.fn = "new" => MetadataSize(mem) = ctor.size

(***************************************************************************)
(* C9: for bytes whose length is a multiple of 4, bytes_to_words returns   *)
(* one word per 4 bytes, word k being the big-endian number                *)
(* b[4k] * 2^24 + b[4k+1] * 2^16 + b[4k+2] * 2^8 + b[4k+3]; so             *)
(* bytes_to_words(words_to_bytes(w)) = w for every word stream w.          *)
(***************************************************************************)
\* the word of value b0 * 2^24 + b1 * 2^16 + b2 * 2^8 + b3
BigEndian(b0, b1, b2, b3) == W(b0 * 256 + b1, b2 * 256 + b3)

C9_BigEndianPacking ==
    (part = "bytes" /\ bstage \in {"words", "unpacked"} /\ Len(binary) % 4 = 0) =>
      /\ Len(words) * 4 = Len(binary)
      /\ \A k \in 1..Len(words) :
           words[k] = BigEndian(binary[4 * k - 3], binary[4 * k - 2],
                                binary[4 * k - 1], binary[4 * k])
      /\ bstage = "unpacked" => words = wstream

C9_Witness ==
    /\ part = "bytes"
    /\ bstage = "unpacked"
    /\ wstream = << W(57005, 48879), W(0, 65535) >>
    /\ binary = <<222, 173, 190, 239, 0, 0, 255, 255>>
    /\ words = wstream

(***************************************************************************)
(* C11: for bytes whose length is not a multiple of 4, with r bytes after  *)
(* the last whole group, bytes_to_words returns ceil(len / 4) words: the   *)
(* leading ones are the big-endian packing of the whole groups, and the    *)
(* last one holds the r remaining bytes in its r most significant byte     *)
(* positions, in the order of the input, its other bytes being 0.          *)
(***************************************************************************)
\* byte i (1-based) of the input, 0 past its end
ByteOrZero(i) == IF i <= Len(binary) THEN binary[i] ELSE 0

C11_NoByteDropped ==
    (part = "bytes" /\ bstage = "words" /\ Len(binary) % 4 # 0) =>
      /\ Len(words) = Len(binary) \div 4 + 1
      /\ \A k \in 1..Len(words) :
           words[k] = BigEndian(ByteOrZero(4 * k - 3), ByteOrZero(4 * k - 2),
                                ByteOrZero(4 * k - 1), ByteOrZero(4 * k))

====
